---- MODULE Spec2Model ----
(***************************************************************************)
(* A model of minigrep (src/lib.rs): Config::new, run, search and          *)
(* search_case_insensitive.                                                *)
(*                                                                         *)
(* A string is a sequence of characters; a character is one of the short   *)
(* names below.  "LF" is U+000A, "CR" is U+000D, "SIGMA" is U+03A3 (capital*)
(* sigma), "sigma" is U+03C3, "fsigma" is U+03C2 (final sigma), "." is     *)
(* U+002E (a Case_Ignorable, uncased character).                           *)
(***************************************************************************)
EXTENDS Integers, Sequences, FiniteSets, TLC

\* ------------------------------------------------------------------ bounds
MaxContentsLen == 3
MaxQueryLen == 2
MaxArgs == 4
MaxFileLen == 2

\* ------------------------------------------------------------- input sets
\* The characters inputs are built from.
Alphabet == {"a", "A", "SIGMA", ".", "LF", "CR"}

Strs(n) == UNION {[1..k -> Alphabet] : k \in 0..n}

\* The strings a command-line argument takes in the program runs.
ArgStrings == {<<>>, <<"a">>, <<"A">>}

ArgSeqs == UNION {[1..k -> ArgStrings] : k \in 0..MaxArgs}

\* What std::env::var("CASE_INSENSITIVE") finds in the process environment.
EnvStates ==
    {[kind |-> "NotPresent"], [kind |-> "NotUnicode"]}
        \cup {[kind |-> "Unicode", value |-> v] : v \in {<<>>, <<"a">>}}

\* The one path of the file system that may hold a readable file.
ExistingPath == <<"a">>

\* What is on disk at ExistingPath: a text, or a cause for the read to fail.
FileStates ==
    {[kind |-> "Text", data |-> d] : d \in Strs(MaxFileLen)}
        \cup {[kind |-> k] : k \in {"NotFound", "PermissionDenied", "InvalidData"}}

\* ---------------------------------------------------------- str::contains
\* haystack.contains(needle): needle occurs at some byte offset.
contains_prefix_only(haystack, needle) ==
    /\ Len(needle) <= Len(haystack)
    /\ SubSeq(haystack, 1, Len(needle)) = needle

contains(haystack, needle) ==
    \E s \in 0..(Len(haystack) - Len(needle)) :
        SubSeq(haystack, s + 1, s + Len(needle)) = needle

\* ------------------------------------------------------------- str::lines
Min(S) == CHOOSE x \in S : \A y \in S : x <= y

\* str::split_inclusive('\n'): pieces that keep their terminating LF; no piece
\* for the empty remainder after a final LF, none for the empty string.
RECURSIVE split_inclusive(_)
split_inclusive(s) ==
    IF s = <<>> THEN <<>>
    ELSE LET nl == {i \in 1..Len(s) : s[i] = "LF"}
         IN IF nl = {} THEN <<s>>
            ELSE <<SubSeq(s, 1, Min(nl))>>
                     \o split_inclusive(SubSeq(s, Min(nl) + 1, Len(s)))

\* The map of str::lines: strip one "\n", then one "\r" only if "\n" was there.
lines_map(piece) ==
    IF piece = <<>> \/ piece[Len(piece)] # "LF" THEN piece
    ELSE LET l == SubSeq(piece, 1, Len(piece) - 1)
         IN IF l = <<>> \/ l[Len(l)] # "CR" THEN l
            ELSE SubSeq(l, 1, Len(l) - 1)

lines_keep_final_empty(contents) ==
    LET p == split_inclusive(contents)
        q == IF contents = <<>> \/ contents[Len(contents)] = "LF"
                THEN Append(p, <<>>) ELSE p
    IN [i \in 1..Len(q) |-> lines_map(q[i])]

lines_keep_cr(contents) ==
    LET p == split_inclusive(contents)
    IN [i \in 1..Len(p) |->
            IF p[i][Len(p[i])] = "LF" THEN SubSeq(p[i], 1, Len(p[i]) - 1)
            ELSE p[i]]

lines(contents) ==
    LET p == split_inclusive(contents)
    IN [i \in 1..Len(p) |-> lines_map(p[i])]

\* ------------------------------------------------------ str::to_lowercase
\* core::unicode::Cased and Case_Ignorable on the characters of the model.
Cased(c) == c \in {"a", "A", "SIGMA", "sigma", "fsigma"}

Case_Ignorable(c) == c = "."

\* core::unicode::conversions::to_lower, for every character but SIGMA.
to_lower(c) == IF c = "A" THEN "a" ELSE c

Reverse(s) == [i \in 1..Len(s) |-> s[Len(s) + 1 - i]]

\* iter.skip_while(Case_Ignorable).next() is Some(c) with Cased(c).
case_ignorable_then_cased(iter) ==
    LET rest == {j \in 1..Len(iter) : ~Case_Ignorable(iter[j])}
    IN IF rest = {} THEN FALSE ELSE Cased(iter[Min(rest)])

\* Final_Sigma: SIGMA at position i lowers to fsigma at the end of a word.
map_uppercase_sigma(from, i) ==
    LET is_word_final ==
            /\ case_ignorable_then_cased(Reverse(SubSeq(from, 1, i - 1)))
            /\ ~case_ignorable_then_cased(SubSeq(from, i + 1, Len(from)))
    IN IF is_word_final THEN "fsigma" ELSE "sigma"

to_lowercase(s) ==
    [i \in 1..Len(s) |->
        IF s[i] = "SIGMA" THEN map_uppercase_sigma(s, i) ELSE to_lower(s[i])]

\* ----------------------------------------------------------------- search
search(query, contents) ==
    SelectSeq(lines(contents), LAMBDA line : contains(line, query))

search_case_insensitive_raw_query(query, contents) ==
    SelectSeq(lines(contents), LAMBDA line : contains(to_lowercase(line), query))

search_case_insensitive(query, contents) ==
    LET q == to_lowercase(query)
    IN SelectSeq(lines(contents), LAMBDA line : contains(to_lowercase(line), q))

\* The number of times the filter closure runs: once per item of lines().
lines_scanned(contents) == Len(lines(contents))

\* ------------------------------------------------------------ Result values
Ok(v) == [ok |-> TRUE, value |-> v]

Err(e) == [ok |-> FALSE, err |-> e]

MissingQuery == "Didn't get a query string"

MissingFilename == "Didn't get a filename"

\* ------------------------------------------------------------ Config::new
\* std::env::var: Ok(value) for a present, valid-Unicode value; Err(NotPresent)
\* for an unset variable; Err(NotUnicode) for a present value that is not
\* valid Unicode.
env_var(e) == IF e.kind = "Unicode" THEN Ok(e.value) ELSE Err(e.kind)

\* Iterator::next on the rest of the arguments: the rest after the item taken.
advance(it) == IF it = <<>> THEN <<>> ELSE Tail(it)

Config_new_no_skip(a, e) ==
    IF a = <<>> THEN Err(MissingQuery)
    ELSE IF Tail(a) = <<>> THEN Err(MissingFilename)
    ELSE Ok([query |-> a[1], filename |-> a[2],
             case_sensitive |-> ~env_var(e).ok])

Config_new_last_filename(a, e) ==
    LET a1 == advance(a)
    IN IF a1 = <<>> THEN Err(MissingQuery)
       ELSE LET a2 == advance(a1)
            IN IF a2 = <<>> THEN Err(MissingFilename)
               ELSE Ok([query |-> Head(a1), filename |-> a[Len(a)],
                        case_sensitive |-> ~env_var(e).ok])

Config_new(a, e) ==
    LET a1 == advance(a)
    IN IF a1 = <<>> THEN Err(MissingQuery)
       ELSE LET a2 == advance(a1)
            IN IF a2 = <<>> THEN Err(MissingFilename)
               ELSE Ok([query |-> Head(a1), filename |-> Head(a2),
                        case_sensitive |-> ~env_var(e).ok])

\* -------------------------------------------------------------------- run
\* std::fs::read_to_string(path) against the file system state f.
read_to_string(f, path) ==
    IF path # ExistingPath THEN Err("NotFound")
    ELSE IF f.kind = "Text" THEN Ok(f.data)
    ELSE Err(f.kind)

run_results_swapped(c, data) ==
    IF c.case_sensitive THEN search_case_insensitive(c.query, data)
    ELSE search(c.query, data)

run_results(c, data) ==
    IF c.case_sensitive THEN search(c.query, data)
    ELSE search_case_insensitive(c.query, data)

\* println!("{}", line) on the standard output stream.
println(out, line) == out \o line \o <<"LF">>

\* ------------------------------------------------------------------ state
VARIABLES
    args,       \* the process arguments handed to Config::new
    env,        \* the state of CASE_INSENSITIVE in the environment
    file,       \* what is on disk at ExistingPath
    pc,         \* the position of the program
    config,     \* the Result of Config::new
    contents,   \* run's local `contents`
    results,    \* run's local `results`
    next,       \* position of the for loop over results
    stdout,     \* the characters written to standard output
    ret,        \* the Result run returned
    reads,      \* number of fs::read_to_string calls made
    query,      \* filter runs: the query
    text,       \* filter runs: the contents
    found,      \* filter runs: what search returned
    foundCI,    \* filter runs: what search_case_insensitive returned
    scanned,    \* filter runs: closure calls made by each function
    called      \* filter runs: which functions have been applied

vars == <<args, env, file, pc, config, contents, results, next, stdout, ret,
          reads, query, text, found, foundCI, scanned, called>>

progVars == <<args, env, file, pc, config, contents, results, next, stdout,
              ret, reads>>

filterVars == <<query, text, found, foundCI, scanned, called>>

NoResult == [ok |-> FALSE, err |-> "none"]

ProgIdle ==
    /\ pc = "Idle"
    /\ config = NoResult
    /\ contents = <<>>
    /\ results = <<>>
    /\ next = 1
    /\ stdout = <<>>
    /\ ret = NoResult
    /\ reads = 0

FilterIdle ==
    /\ found = <<>>
    /\ foundCI = <<>>
    /\ scanned = [search |-> 0, search_case_insensitive |-> 0]
    /\ called = {}

\* A program run: arguments, environment and disk are the inputs.
Init ==
    /\ args \in ArgSeqs
    /\ env \in EnvStates
    /\ file \in FileStates
    /\ ProgIdle
    /\ query = <<>>
    /\ text = <<>>
    /\ FilterIdle

\* let config = Config::new(env::args())
ConfigNew ==
    /\ pc = "Idle"
    /\ config' = Config_new(args, env)
    /\ pc' = IF config'.ok THEN "Ready" ELSE "ConfigFailed"
    /\ UNCHANGED <<args, env, file, contents, results, next, stdout, ret, reads>>
    /\ UNCHANGED filterVars

RunRead_ignore_error ==
    /\ pc = "Ready"
    /\ reads' = reads + 1
    /\ LET r == read_to_string(file, config.value.filename)
       IN /\ contents' = IF r.ok THEN r.value ELSE <<>>
          /\ pc' = "Search"
          /\ ret' = ret
    /\ UNCHANGED <<args, env, file, config, results, next, stdout>>
    /\ UNCHANGED filterVars

\* let contents = fs::read_to_string(config.filename)?;
RunRead ==
    /\ pc = "Ready"
    /\ reads' = reads + 1
    /\ LET r == read_to_string(file, config.value.filename)
       IN IF r.ok
          THEN /\ contents' = r.value
               /\ pc' = "Search"
               /\ ret' = ret
          ELSE /\ contents' = contents
               /\ pc' = "Failed"
               /\ ret' = r
    /\ UNCHANGED <<args, env, file, config, results, next, stdout>>
    /\ UNCHANGED filterVars

\* let results = if config.case_sensitive { .. } else { .. };
RunSearch ==
    /\ pc = "Search"
    /\ results' = run_results(config.value, contents)
    /\ next' = 1
    /\ pc' = "Print"
    /\ UNCHANGED <<args, env, file, config, contents, stdout, ret, reads>>
    /\ UNCHANGED filterVars

\* one turn of: for line in results { println!("{}", line); }
RunPrint ==
    /\ pc = "Print"
    /\ next <= Len(results)
    /\ stdout' = println(stdout, results[next])
    /\ next' = next + 1
    /\ UNCHANGED <<args, env, file, pc, config, contents, results, ret, reads>>
    /\ UNCHANGED filterVars

\* Ok(())
RunReturn ==
    /\ pc = "Print"
    /\ next > Len(results)
    /\ ret' = Ok("unit")
    /\ pc' = "Succeeded"
    /\ UNCHANGED <<args, env, file, config, contents, results, next, stdout, reads>>
    /\ UNCHANGED filterVars

Next == ConfigNew \/ RunRead \/ RunSearch \/ RunPrint \/ RunReturn

Spec == Init /\ [][Next]_vars

\* ------------------------------------------------- the two filters alone
\* The filter functions applied to every query and contents within the bounds.
FilterInit ==
    /\ query \in Strs(MaxQueryLen)
    /\ text \in Strs(MaxContentsLen)
    /\ FilterIdle
    /\ args = <<>>
    /\ env = [kind |-> "NotPresent"]
    /\ file = [kind |-> "NotFound"]
    /\ ProgIdle

Search ==
    /\ "search" \notin called
    /\ found' = search(query, text)
    /\ scanned' = [scanned EXCEPT !.search = lines_scanned(text)]
    /\ called' = called \cup {"search"}
    /\ UNCHANGED <<query, text, foundCI>>
    /\ UNCHANGED progVars

SearchCaseInsensitive ==
    /\ "search_case_insensitive" \notin called
    /\ foundCI' = search_case_insensitive(query, text)
    /\ scanned' = [scanned EXCEPT !.search_case_insensitive = lines_scanned(text)]
    /\ called' = called \cup {"search_case_insensitive"}
    /\ UNCHANGED <<query, text, found>>
    /\ UNCHANGED progVars

FilterNext == Search \/ SearchCaseInsensitive

FilterSpec == FilterInit /\ [][FilterNext]_vars

\* ------------------------------------------- notions the properties use
\* q occurs in line at offset s, character by character.
OccursAt(line, q, s) ==
    /\ s + Len(q) <= Len(line)
    /\ \A k \in 1..Len(q) : line[s + k] = q[k]

Occurs(line, q) == \E s \in 0..Len(line) : OccursAt(line, q, s)

\* The k-th smallest member of a set of positions.
Kth(idx, k) == CHOOSE i \in idx : Cardinality({j \in idx : j <= i}) = k

\* res is exactly the items of L at the positions idx, in the order of L.
Picks(res, L, idx) ==
    /\ Len(res) = Cardinality(idx)
    /\ \A k \in 1..Len(res) : res[k] = L[Kth(idx, k)]

\* The newline-delimited segments of t: the maximal runs of characters between
\* newline separators, or between a separator and the start or end of t.
Segments(t) ==
    LET nl == {i \in 1..Len(t) : t[i] = "LF"}
        n == Cardinality(nl)
        first(k) == IF k = 1 THEN 1 ELSE Kth(nl, k - 1) + 1
        last(k) == IF k = n + 1 THEN Len(t) ELSE Kth(nl, k) - 1
    IN [k \in 1..(n + 1) |-> SubSeq(t, first(k), last(k))]

\* The segments of t, less the empty segment at the end of t (t empty, or t
\* ending in a newline), each segment that a newline ends taken without the
\* carriage return directly before that newline.
TerminatedLines(t) ==
    LET seg == Segments(t)
        n == IF seg[Len(seg)] = <<>> THEN Len(seg) - 1 ELSE Len(seg)
        cut(k) == IF /\ k < Len(seg)
                     /\ seg[k] # <<>>
                     /\ seg[k][Len(seg[k])] = "CR"
                  THEN SubSeq(seg[k], 1, Len(seg[k]) - 1)
                  ELSE seg[k]
    IN [k \in 1..n |-> cut(k)]

Range(f) == {f[i] : i \in DOMAIN f}

RECURSIVE IsSubsequence(_, _)
IsSubsequence(a, b) ==
    IF a = <<>> THEN TRUE
    ELSE IF b = <<>> THEN FALSE
    ELSE IF Head(a) = Head(b) THEN IsSubsequence(Tail(a), Tail(b))
    ELSE IsSubsequence(a, Tail(b))

\* What standard output holds once every item of rs has been printed.
RECURSIVE Output(_)
Output(rs) == IF rs = <<>> THEN <<>> ELSE Head(rs) \o <<"LF">> \o Output(Tail(rs))

BothCalled == called = {"search", "search_case_insensitive"}

\* ------------------------------------------------------------- properties
\* C1: search(query, contents) returns exactly the lines of contents in which
\* query occurs character for character, each once, unchanged, in the order
\* of contents; a line holding query only in another letter case is left out.
C1_SearchExact ==
    "search" \in called =>
        LET L == lines(text)
        IN Picks(found, L, {i \in 1..Len(L) : Occurs(L[i], query)})

\* search has left out a line that matches only under case folding, and has
\* returned another.
C1_Witness ==
    /\ "search" \in called
    /\ Len(found) = 1
    /\ \E i \in 1..Len(lines(text)) :
          /\ lines(text)[i] # found[1]
          /\ Occurs(to_lowercase(lines(text)[i]), to_lowercase(query))

\* C2: search_case_insensitive(query, contents) returns exactly the lines of
\* contents whose lowercase form contains the lowercase form of query, with
\* their original text, in the order of contents.
C2_SearchFolded ==
    "search_case_insensitive" \in called =>
        LET L == lines(text)
        IN Picks(foundCI, L,
                 {i \in 1..Len(L) :
                     Occurs(to_lowercase(L[i]), to_lowercase(query))})

\* search_case_insensitive has returned a line in its original, not lowercase,
\* text for a query that is not lowercase either.
C2_Witness ==
    /\ "search_case_insensitive" \in called
    /\ to_lowercase(query) # query
    /\ \E k \in 1..Len(foundCI) :
          /\ to_lowercase(foundCI[k]) # foundCI[k]
          /\ ~Occurs(foundCI[k], query)

\* C8 as stated: with the empty query both functions return every
\* newline-delimited segment of contents, in order, and the empty sequence for
\* empty contents.
C8_AsStated ==
    (BothCalled /\ query = <<>>) =>
        IF text = <<>> THEN found = <<>> /\ foundCI = <<>>
        ELSE found = Segments(text) /\ foundCI = Segments(text)

\* C8 amended: with the empty query both functions return, in order, every
\* newline-delimited segment of contents except an empty segment after the last
\* newline, each without the carriage return directly before its newline; for
\* empty contents both return the empty sequence.
C8_EmptyQuery ==
    (BothCalled /\ query = <<>>) =>
        /\ found = TerminatedLines(text)
        /\ foundCI = TerminatedLines(text)
        /\ (text = <<>> => found = <<>> /\ foundCI = <<>>)

\* Both functions have run with the empty query on contents that end in a
\* newline and hold more than one line.
C8_Witness ==
    /\ BothCalled
    /\ query = <<>>
    /\ text # <<>>
    /\ text[Len(text)] = "LF"
    /\ Len(found) = 2

\* C9 as stated: the number of lines scanned by each function is the number of
\* newline-delimited segments of contents (of contents that are not empty, so
\* that the empty text counts as having no line), and every result is a
\* substring of contents.
C9_AsStated ==
    (BothCalled /\ text # <<>>) =>
        /\ scanned.search = Len(Segments(text))
        /\ scanned.search_case_insensitive = Len(Segments(text))
        /\ \A e \in Range(found) \cup Range(foundCI) : Occurs(text, e)

\* C9 amended: the number of lines scanned by each function is the number of
\* newline-delimited segments of contents not counting an empty segment at the
\* end of contents (contents empty or ending in a newline); every result is a
\* substring of contents, namely a segment, without the carriage return
\* directly before the newline that ends it.
C9_ScannedSegments ==
    BothCalled =>
        LET seg == Segments(text)
            n == IF seg[Len(seg)] = <<>> THEN Len(seg) - 1 ELSE Len(seg)
        IN /\ scanned.search = n
           /\ scanned.search_case_insensitive = n
           /\ \A e \in Range(found) \cup Range(foundCI) :
                 /\ Occurs(text, e)
                 /\ \E k \in 1..n :
                       \/ e = seg[k]
                       \/ k < Len(seg) /\ seg[k] = Append(e, "CR")

\* Both functions have returned the line of contents that end in a carriage
\* return and a newline.
C9_Witness ==
    /\ BothCalled
    /\ Len(text) >= 3
    /\ text[Len(text)] = "LF"
    /\ text[Len(text) - 1] = "CR"
    /\ found # <<>>
    /\ foundCI # <<>>
    /\ query # <<>>

\* C10: the result of search is a subsequence of the result of
\* search_case_insensitive on the same query and contents.
C10_AsStated == BothCalled => IsSubsequence(found, foundCI)

\* C3: Config::new returns the missing-query error for fewer than two
\* arguments, the missing-filename error for exactly two, and succeeds
\* otherwise, whatever CASE_INSENSITIVE is; the two errors differ.
C3_ConfigErrors ==
    pc # "Idle" =>
        /\ Len(args) <= 1 => config = [ok |-> FALSE, err |-> MissingQuery]
        /\ Len(args) = 2 => config = [ok |-> FALSE, err |-> MissingFilename]
        /\ Len(args) >= 3 => config.ok
        /\ MissingQuery # MissingFilename

\* Config::new has failed for want of a filename with CASE_INSENSITIVE set.
C3_Witness ==
    /\ pc = "ConfigFailed"
    /\ Len(args) = 2
    /\ env.kind = "Unicode"
    /\ config.err = MissingFilename

\* C4: case_sensitive is false whenever CASE_INSENSITIVE is set to any value
\* the environment can hold, and true exactly when it is unset.
C4_AsStated ==
    (pc # "Idle" /\ config.ok) =>
        (config.value.case_sensitive <=> env.kind = "NotPresent")

\* The file named by config.filename cannot be read.
ReadFails ==
    config.value.filename # ExistingPath \/ file.kind # "Text"

\* C5: when the read of config.filename fails, run returns the read error and
\* standard output stays empty; the file is read at most once and before any
\* output; a finished run has printed all of its results or nothing.
C5_ReadFailure ==
    /\ reads <= 1
    /\ (reads = 1 /\ ReadFails) =>
          /\ pc = "Failed"
          /\ ret = [ok |-> FALSE,
                    err |-> IF config.value.filename # ExistingPath
                            THEN "NotFound" ELSE file.kind]
          /\ stdout = <<>>
    /\ stdout # <<>> => (reads = 1 /\ ~ReadFails)
    /\ pc = "Failed" => (reads = 1 /\ ReadFails)
    /\ pc \in {"Succeeded", "Failed"} =>
          (stdout = <<>> \/ stdout = Output(results))

\* run has failed on a file that exists and cannot be read.
C5_Witness ==
    /\ pc = "Failed"
    /\ config.value.filename = ExistingPath
    /\ file.kind = "PermissionDenied"
    /\ config.value.query = <<>>

\* C6: after a successful read run prints exactly the result of the function
\* that case_sensitive selects, one output line per matching line, in order,
\* and returns success, also with no matching line.
C6_RunOutput ==
    /\ pc = "Succeeded" =>
          LET c == config.value
              expected == IF c.case_sensitive THEN search(c.query, file.data)
                          ELSE search_case_insensitive(c.query, file.data)
          IN /\ stdout = Output(expected)
             /\ Cardinality({i \in 1..Len(stdout) : stdout[i] = "LF"})
                    = Len(expected)
             /\ ret = [ok |-> TRUE, value |-> "unit"]
    /\ (pc \in {"Succeeded", "Failed"} /\ ~ReadFails) => pc = "Succeeded"

\* run has succeeded case-insensitively and printed a line that the
\* case-sensitive search does not match.
C6_Witness ==
    /\ pc = "Succeeded"
    /\ ~config.value.case_sensitive
    /\ stdout # <<>>
    /\ search(config.value.query, file.data) = <<>>

\* C7: for three or more arguments Config::new succeeds with the second as
\* query and the third as filename, unvalidated; the Config depends on those
\* two and the environment only.
C7_ConfigFields ==
    (pc # "Idle" /\ Len(args) >= 3) =>
        config = [ok |-> TRUE,
                  value |-> [query |-> args[2], filename |-> args[3],
                             case_sensitive |-> env.kind # "Unicode"]]

\* Config::new has taken an empty query and the path of no file from four
\* arguments whose first and last differ from both.
C7_Witness ==
    /\ pc = "Ready"
    /\ Len(args) = 4
    /\ config.value.query = <<>>
    /\ config.value.filename = <<"A">>
    /\ args[1] = <<"a">>
    /\ args[4] = <<"a">>

====
